---- MODULE Spec2Model ----
(***************************************************************************)
(* A model of src/src/stars.rs: the StarField particle state (stars,       *)
(* meteors, resolution), the two vertex buffers that update() rebuilds,    *)
(* and the two host callbacks of start_starfield: the animation frame      *)
(* (update() then draw()) and the resize event (resize()).  resize() is    *)
(* modelled twice: as one step (Resize), and with one step per iteration   *)
(* of the loop of pick_random_in_diff_area (ResizeBegin, PickReject,       *)
(* PickAccept).                                                            *)
(*                                                                         *)
(* Number representation (f32 in the source):                              *)
(*   resolution          integers, in half pixels (css size * dpr with     *)
(*                       dpr = 1/2 or 1), so areas are in quarter px^2;    *)
(*   x, y                integers, in 1/1000000 px (fixed point);          *)
(*   vx, vy              integers, in 1/1000000000 px per frame, so that   *)
(*                       the decay by 0.995 per frame keeps its digits;    *)
(*   radius              in 1/100000;  point size in 1/1000;               *)
(*   alpha, colour       in 1/1000;                                        *)
(*   phase, speed        in 1/1000000 rad;                                 *)
(*   Math.random()       an integer r in 0..999 standing for r/1000;       *)
(*   star count / area * extra area   computed as the f32 operations of    *)
(*                       the source compute it (24-bit significand, round  *)
(*                       to nearest even), see F32Div, F32Mul, F32Ceil;    *)
(*   width * height      the f32 product, see F32OfInt and Area.           *)
(***************************************************************************)
EXTENDS Integers, Sequences, FiniteSets, TLC

VARIABLES
    stars,          \* StarField.stars: sequence of Star records (Vec order)
    meteors,        \* StarField.meteors: sequence of Meteor records
    resolution,     \* StarField.resolution: <<width, height>> in half pixels
    star_buffer,    \* contents of the GL buffer star_buffer (flat floats)
    meteor_buffer,  \* contents of the GL buffer meteor_buffer (flat floats)
    pc,             \* "idle": between callbacks; "updated": update() has
                    \* returned and draw() is about to run in the same callback;
                    \* "placing": resize() is in its placement loop
    pick,           \* the placement loop of resize(): old (old_width,
                    \* old_height), todo (iterations of 0..stars_to_add still
                    \* to run), and the history flag rejected (a draw of this
                    \* call failed the test of pick_random_in_diff_area)
    frame,          \* number of update() calls that have returned
    resizes,        \* number of resize() calls that have returned
    nextId,         \* history: identity given to the next Star pushed
    spawned,        \* history: set of frames whose update() spawned a meteor
    resized,        \* history: set of values of frame at which resize() ran
    last            \* history: the last call (op), the stars, meteors and
                    \* resolution it started from (stars, meteors, res), the
                    \* size resize() was given (size) and the vertex counts
                    \* draw() passed to draw_arrays (drawn)

vars == <<stars, meteors, resolution, star_buffer, meteor_buffer, pc, pick,
          frame, resizes, nextId, spawned, resized, last>>

----------------------------------------------------------------------------
(* Bounds of the exploration. *)

MaxStars == 5
MaxCalls == 2
MaxSpawns == 1
MeteorFrames == 52

(* Program constants. *)

METEOR_TRAIL_LENGTH == 300
METEOR_WIDTH == 500
MaxLifetime == 50
AMPLITUDE == 300
POINT_SCALE == 100

----------------------------------------------------------------------------
(* Arithmetic helpers. *)

Min(a, b) == IF a < b THEN a ELSE b
Max(a, b) == IF a > b THEN a ELSE b
Abs(a) == IF a < 0 THEN 0 - a ELSE a

\* a * b / c truncated toward zero (fixed-point product), c > 0
MulDivTrunc(a, b, c) ==
    IF a * b >= 0 THEN (a * b) \div c ELSE 0 - ((0 - a * b) \div c)

\* a / d rounded to the nearest integer, ties away from zero (d > 0)
RoundDiv(a, d) ==
    IF a >= 0 THEN (2 * a + d) \div (2 * d)
    ELSE 0 - ((2 * (0 - a) + d) \div (2 * d))

\* a * b / c truncated, computed without the product a * b (a >= 0, c > 0)
MulDivWide(a, b, c) == (a \div c) * b + ((a % c) * b) \div c

\* n / d rounded to the nearest integer, ties to even (n >= 0, d > 0)
RoundHalfEven(n, d) ==
    LET q == n \div d
        r == n % d
    IN  IF 2 * r > d \/ (2 * r = d /\ q % 2 = 1) THEN q + 1 ELSE q

RECURSIVE ISqrtIn(_, _, _)
ISqrtIn(n, lo, hi) ==
    IF lo = hi THEN lo
    ELSE LET mid == (lo + hi + 1) \div 2
         IN  IF mid * mid <= n THEN ISqrtIn(n, mid, hi) ELSE ISqrtIn(n, lo, mid - 1)

\* floor of the square root of n, 0 <= n < 2^30
ISqrt(n) == ISqrtIn(n, 0, Min(n, 32767))

\* the square root of n rounded to the nearest integer, 0 <= n < 2^30
RoundSqrt(n) == LET s == ISqrt(n) IN IF n - s * s > s THEN s + 1 ELSE s

----------------------------------------------------------------------------
(* f32 arithmetic on the values resize() computes with.  A positive f32 is  *)
(* <<m, e>> = m * 2^e with 2^23 <= m < 2^24; zero is <<0, 0>>.  Every       *)
(* operation rounds its exact result to the nearest f32, ties to even.      *)
(* Results are integers of TLC, so below 2^31.                              *)

\* the number of bits of n >= 0
RECURSIVE BitLen(_)
BitLen(n) == IF n = 0 THEN 0 ELSE 1 + BitLen(n \div 2)

\* the f32 nearest to the integer n, 0 <= n < 2^30: n as f32, or an exact
\* integer result rounded
F32OfInt(n) ==
    IF n = 0 THEN <<0, 0>>
    ELSE LET b == BitLen(n)
         IN  IF b <= 24 THEN <<n * 2^(24 - b), b - 24>>
             ELSE LET m == RoundHalfEven(n, 2^(b - 24))
                  IN  IF m = 2^24 THEN <<2^23, b - 23>> ELSE <<m, b - 24>>

\* the value of an f32 that is an integer
F32Int(f) == IF f[2] >= 0 THEN f[1] * 2^(f[2]) ELSE f[1] \div 2^(0 - f[2])

\* long division by a: t more bits of the quotient q, r the remainder
RECURSIVE DivBits(_, _, _, _)
DivBits(q, r, a, t) ==
    IF t = 0 THEN <<q, r>>
    ELSE IF 2 * r >= a THEN DivBits(2 * q + 1, 2 * r - a, a, t - 1)
    ELSE DivBits(2 * q, 2 * r, a, t - 1)

\* f32 quotient f / g, g > 0
F32Div(f, g) ==
    IF f[1] = 0 THEN <<0, 0>>
    ELSE LET t  == IF f[1] >= g[1] THEN 23 ELSE 24
             qr == DivBits(f[1] \div g[1], f[1] % g[1], g[1], t)
             q  == qr[1]
             r  == qr[2]
             m  == IF 2 * r > g[1] \/ (2 * r = g[1] /\ q % 2 = 1) THEN q + 1 ELSE q
             e  == f[2] - g[2] - t
         IN  IF m = 2^24 THEN <<2^23, e + 1>> ELSE <<m, e>>

\* f32 product f * g; the 48-bit product of the significands is hi * 2^24 + lo
F32Mul(f, g) ==
    IF f[1] = 0 \/ g[1] = 0 THEN <<0, 0>>
    ELSE LET f1   == f[1] \div 4096
             f0   == f[1] % 4096
             g1   == g[1] \div 4096
             g0   == g[1] % 4096
             mid  == f1 * g0 + f0 * g1
             low  == (mid % 4096) * 4096 + f0 * g0
             hi   == f1 * g1 + mid \div 4096 + low \div 2^24
             lo   == low % 2^24
             wide == hi >= 2^23
             q    == IF wide THEN hi ELSE 2 * hi + lo \div 2^23
             r    == IF wide THEN lo ELSE lo % 2^23
             half == IF wide THEN 2^23 ELSE 2^22
             m    == IF r > half \/ (r = half /\ q % 2 = 1) THEN q + 1 ELSE q
             e    == f[2] + g[2] + (IF wide THEN 24 ELSE 23)
         IN  IF m = 2^24 THEN <<2^23, e + 1>> ELSE <<m, e>>

\* f.ceil() as usize, for f >= 0
F32Ceil(f) ==
    IF f[1] = 0 THEN 0
    ELSE IF f[2] >= 0 THEN f[1] * 2^(f[2])
    ELSE IF 0 - f[2] >= 24 THEN 1
    ELSE (f[1] + 2^(0 - f[2]) - 1) \div 2^(0 - f[2])

----------------------------------------------------------------------------
(* Inputs from the host: the canvas size, the device pixel ratio and        *)
(* Math.random().                                                           *)

\* canvas.client_width(), canvas.client_height() and 2 * device_pixel_ratio
Viewports ==
    { [cw |-> 0, ch |-> 4, dpr2 |-> 2],
      [cw |-> 1, ch |-> 1, dpr2 |-> 1],
      [cw |-> 7, ch |-> 1, dpr2 |-> 1],
      [cw |-> 7, ch |-> 4, dpr2 |-> 1],
      [cw |-> 1, ch |-> 2, dpr2 |-> 2] }

\* the num_stars argument of start_starfield
NumStars == {0, 1}

\* css size * dpr, in half pixels
DeviceSize(vp) == <<vp.cw * vp.dpr2, vp.ch * vp.dpr2>>

\* a length in half pixels as a position in 1/1000000 px
ToPos(halfpx) == halfpx * 500000

\* Math.random() values used for placements
Rand == {0, 999}

\* r * length, r/1000 in [0,1), in 1/1000000 px
RandMul(r, len) == r * (ToPos(len) \div 1000)

\* The draws of one star: r (radius), center (the 50% chance), px, py
\* (placement), chance (gaussian or uniform y), g (the Box-Muller value
\* sqrt(-2 ln u1) cos(2 pi u2), in 1/1000, |g| <= 5257 as u1 >= 0.000001),
\* vx, vy, r_val, phase, speed, choice.
DrawSamples ==
    { [r |-> 0, center |-> 999, px |-> 0, py |-> 0, chance |-> 0,
       g |-> 0 - 5257, vx |-> 0, vy |-> 500, r_val |-> 0, phase |-> 250,
       speed |-> 0, choice |-> 0],
      [r |-> 999, center |-> 0, px |-> 500, py |-> 500, chance |-> 0,
       g |-> 0, vx |-> 999, vy |-> 0, r_val |-> 999, phase |-> 250,
       speed |-> 999, choice |-> 999],
      [r |-> 500, center |-> 500, px |-> 999, py |-> 999, chance |-> 999,
       g |-> 0, vx |-> 999, vy |-> 999, r_val |-> 500, phase |-> 750,
       speed |-> 500, choice |-> 500] }

\* The draws of one star pushed by resize(), after its placement: r
\* (radius), vx, vy, r_val, phase, speed, choice.
PushSamples ==
    { [r |-> 0, vx |-> 0, vy |-> 500, r_val |-> 500, phase |-> 250,
       speed |-> 0, choice |-> 0],
      [r |-> 999, vx |-> 999, vy |-> 0, r_val |-> 999, phase |-> 750,
       speed |-> 999, choice |-> 999] }

----------------------------------------------------------------------------
(* Star construction (init_stars and the push in resize). *)

\* 0.005 + (0.04 - 0.005) * r * r, in 1/100000
Radius(r) == 500 + (35 * r * r) \div 10000

\* (random - 0.5) * 0.1, in 1/1000000000 px per frame
Velocity(r) == (r - 500) * 100000

BaseAlpha(r_val) == IF r_val < 330 THEN 500 ELSE IF r_val < 660 THEN 700 ELSE 900

Color(choice) ==
    IF choice < 330 THEN <<1000, 800, 500>>
    ELSE IF choice < 660 THEN <<500, 800, 1000>>
    ELSE <<1000, 1000, 1000>>

\* the Star pushed for the draws d at position <<x, y>>
MakeStar(id, x, y, d) ==
    [ id            |-> id,
      x             |-> x,
      y             |-> y,
      radius        |-> Radius(d.r),
      vx            |-> Velocity(d.vx),
      vy            |-> Velocity(d.vy),
      base_alpha    |-> BaseAlpha(d.r_val),
      twinkle_phase |-> d.phase * 6283 + (d.phase * 185) \div 1000,
      twinkle_speed |-> 2000 + d.speed * 3,
      alpha         |-> BaseAlpha(d.r_val),
      color         |-> Color(d.choice) ]

\* the placement of init_stars for the draws d on a width x height surface
InitPos(d, width, height) ==
    LET center_x == ToPos(width) \div 2
        center_y == ToPos(height) \div 2
    IN  IF Radius(d.r) > 3500 /\ d.center < 500
        THEN << center_x + (d.px - 500) * (ToPos(width) \div 5000),
                center_y + (d.py - 500) * (ToPos(height) \div 5000) >>
        ELSE << RandMul(d.px, width),
                IF d.chance < 800
                THEN LET sigma == (ToPos(height) * 15) \div 100
                         y == center_y + (sigma \div 1000) * d.g
                     IN  Min(Max(y, 0), ToPos(height))
                ELSE RandMul(d.py, height) >>

\* init_stars: one Star per element of ds, in order
InitStars(ds, width, height) ==
    [ i \in 1..Len(ds) |->
        LET p == InitPos(ds[i], width, height)
        IN  MakeStar(i, p[1], p[2], ds[i]) ]

----------------------------------------------------------------------------
(* update(): stars. *)

\* sin(x) for 0 <= x <= pi, in 1/1000 (x in 1/1000 rad)
SinHalf(x) ==
    LET t == (x * (3142 - x)) \div 1000
    IN  (16000 * t) \div (49361 - 4 * t)

\* sin(phase), in 1/1000 (phase in 1/1000000 rad)
Sin(phase) ==
    LET p == phase % 6283185
    IN  IF p < 3141593 THEN SinHalf(p \div 1000)
        ELSE 0 - SinHalf(Min((p - 3141593) \div 1000, 3142))

\* alpha.max(0.0).min(1.0)
ClampAlphaNoMin(a) == Max(a, 0)
ClampAlpha(a) == Min(Max(a, 0), 1000)

\* the two wrap tests of one axis
WrapNoLower(p, bound) == IF p > bound THEN 0 ELSE p
Wrap(p, bound) ==
    LET q == IF p > bound THEN 0 ELSE p
    IN  IF q < 0 THEN bound ELSE q

\* v * dt with dt = 1.0: the displacement of one frame, in 1/1000000 px
Step(v) == RoundDiv(v, 1000)

\* v * 0.995
Decay(v) == v - RoundDiv(v, 200)

\* the body of the loop over the stars
UpdateStar(s, res) ==
    LET phase == s.twinkle_phase + s.twinkle_speed
    IN  [ s EXCEPT
            !.x = Wrap(s.x + Step(s.vx), ToPos(res[1])),
            !.y = Wrap(s.y + Step(s.vy), ToPos(res[2])),
            !.vx = Decay(s.vx),
            !.vy = Decay(s.vy),
            !.twinkle_phase = phase,
            !.alpha = ClampAlpha(s.base_alpha + MulDivTrunc(AMPLITUDE, Sin(phase), 1000)) ]

\* stars that leave the surface are dropped instead of wrapped
UpdateStarsCull(ss, res) ==
    SelectSeq([ i \in 1..Len(ss) |->
                  [ ss[i] EXCEPT !.x = @ + Step(ss[i].vx), !.y = @ + Step(ss[i].vy) ] ],
              LAMBDA s : /\ s.x >= 0 /\ s.x <= ToPos(res[1])
                         /\ s.y >= 0 /\ s.y <= ToPos(res[2]))

\* the loop over the stars
UpdateStars(ss, res) == [ i \in 1..Len(ss) |-> UpdateStar(ss[i], res) ]

\* the 7 floats pushed for one star
StarRecord(s) ==
    << s.x, s.y, Max((s.radius * POINT_SCALE) \div 100, 1000), s.alpha,
       s.color[1], s.color[2], s.color[3] >>

\* star_data: 7 floats per star, in star order
StarData(ss) ==
    [ k \in 1..(7 * Len(ss)) |-> StarRecord(ss[((k - 1) \div 7) + 1])[((k - 1) % 7) + 1] ]

----------------------------------------------------------------------------
(* update(): meteors. *)

\* the draws of the spawn test and of the spawn position: <<u, rx, ry>>
SpawnDraws == { <<0, 500, 999>>, <<500, 0, 0>> }

\* speed * cos(pi/4) = speed * sin(pi/4), speed = 1.0, in 1/1000000000 px
\* per frame
MeteorVelocity == 707106781

\* the Meteor pushed by update() for the position draws rx, ry
NewMeteor(rx, ry, res, born) ==
    [ x            |-> RandMul(rx, res[1]),
      y            |-> RandMul(ry, res[2]),
      vx           |-> MeteorVelocity,
      vy           |-> MeteorVelocity,
      lifetime     |-> 0,
      max_lifetime |-> MaxLifetime,
      point_size   |-> 0,
      color        |-> <<1000, 1000, 800>>,
      born         |-> born ]

\* the loop over the meteors: position += velocity, lifetime += dt
AgeMeteors(ms) ==
    [ i \in 1..Len(ms) |->
        [ ms[i] EXCEPT !.x = @ + Step(ms[i].vx), !.y = @ + Step(ms[i].vy),
                       !.lifetime = @ + 1 ] ]

RetainMeteorsInclusive(ms) == SelectSeq(ms, LAMBDA m : m.lifetime <= m.max_lifetime)

\* meteors.retain(|meteor| meteor.lifetime < meteor.max_lifetime)
RetainMeteors(ms) == SelectSeq(ms, LAMBDA m : m.lifetime < m.max_lifetime)

StepMeteorsRetainFirst(ms) == AgeMeteors(RetainMeteors(ms))

\* the aging loop, then the retain
StepMeteors(ms) == RetainMeteors(AgeMeteors(ms))

\* the 36 floats (6 vertices of x, y, alpha, r, g, b) pushed for one meteor;
\* speed is in 1/10000 px per frame (the test is speed > 0.0001), norm_vx
\* and norm_vy are in 1/1000000
MeteorVertices(m) ==
    LET sx      == RoundDiv(m.vx, 100000)
        sy      == RoundDiv(m.vy, 100000)
        speed   == RoundSqrt(sx * sx + sy * sy)
        unit(v) == IF v >= 0 THEN MulDivWide(v, 10, speed)
                   ELSE 0 - MulDivWide(0 - v, 10, speed)
        norm_vx == IF speed > 1 THEN unit(m.vx) ELSE 1000000
        norm_vy == IF speed > 1 THEN unit(m.vy) ELSE 0
        tail_x  == m.x - norm_vx * METEOR_TRAIL_LENGTH
        tail_y  == m.y - norm_vy * METEOR_TRAIL_LENGTH
        half    == METEOR_WIDTH \div 2
        ox      == MulDivTrunc(0 - norm_vy, half, 1000)
        oy      == MulDivTrunc(norm_vx, half, 1000)
        head_alpha == 1000 - (m.lifetime * 1000) \div m.max_lifetime
        v0 == << m.x + ox, m.y + oy, head_alpha >> \o m.color
        v1 == << m.x - ox, m.y - oy, head_alpha >> \o m.color
        v2 == << tail_x + ox, tail_y + oy, 0 >> \o m.color
        v3 == << tail_x - ox, tail_y - oy, 0 >> \o m.color
    IN  v0 \o v1 \o v2 \o v1 \o v2 \o v3

\* four vertices per meteor (an indexed quad) instead of two triangles
MeteorDataQuad(ms) ==
    [ k \in 1..(24 * Len(ms)) |->
        LET v == MeteorVertices(ms[((k - 1) \div 24) + 1])
        IN  (SubSeq(v, 1, 18) \o SubSeq(v, 31, 36))[((k - 1) % 24) + 1] ]

\* meteor_data: 36 floats per meteor, in meteor order
RECURSIVE MeteorData(_)
MeteorData(ms) ==
    IF ms = << >> THEN << >>
    ELSE MeteorVertices(Head(ms)) \o MeteorData(Tail(ms))

----------------------------------------------------------------------------
(* resize(). *)

\* the negation of the early-return test old_width <= 0.0 || old_height <= 0.0
ValidSizeBoth(size) == ~(size[1] <= 0 /\ size[2] <= 0)
ValidSize(size) == ~(size[1] <= 0 \/ size[2] <= 0)

\* the predicate of stars.retain
InBounds(s, size) ==
    /\ s.x >= 0 /\ s.x <= ToPos(size[1])
    /\ s.y >= 0 /\ s.y <= ToPos(size[2])

\* the cull with strict comparisons: a star on an edge is dropped
RetainedStrict(ss, size) ==
    SelectSeq(ss, LAMBDA s : /\ s.x > 0 /\ s.x < ToPos(size[1])
                             /\ s.y > 0 /\ s.y < ToPos(size[2]))

\* stars.retain(...)
Retained(ss, size) == SelectSeq(ss, LAMBDA s : InBounds(s, size))

\* the f32 product width * height, in quarter px^2 (sizes below 2^15 half
\* pixels; the scaling by 4 is exact in f32)
Area(size) == F32Int(F32OfInt(size[1] * size[2]))

\* the area difference taken in absolute value, without the test
StarsToAddAbs(count, old, new) ==
    IF Area(new) # Area(old)
    THEN F32Ceil(F32Mul(F32Div(F32OfInt(count), F32OfInt(Max(Area(old), 4))),
                        F32OfInt(Abs(Area(new) - Area(old)))))
    ELSE 0

\* stars_to_add for the star count after retain: density is
\* len as f32 / old_area.max(1.0) (1 px^2 is 4 quarters; the scalings by 4
\* are exact in f32 and cancel), extra_area is the f32 difference of the two
\* f32 areas, and the count is the ceil of their f32 product
StarsToAdd(count, old, new) ==
    IF Area(new) > Area(old)
    THEN F32Ceil(F32Mul(F32Div(F32OfInt(count), F32OfInt(Max(Area(old), 4))),
                        F32OfInt(Area(new) - Area(old))))
    ELSE 0

\* the points (random * new_width, random * new_height) of one iteration
PickDraws(new) ==
    { << RandMul(r1, new[1]), RandMul(r2, new[2]) >> : r1, r2 \in Rand }

\* every draw returned as it comes, without the rejection test
PickRandomAnywhere(old, new) == PickDraws(new)

\* the test of the loop with && in place of ||
PickRandomBothOutside(old, new) ==
    IF new[1] <= old[1] /\ new[2] <= old[2]
    THEN PickDraws(new)
    ELSE { p \in PickDraws(new) : p[1] > ToPos(old[1]) /\ p[2] > ToPos(old[2]) }

\* the points pick_random_in_diff_area can return (the draws that leave
\* its loop)
PickRandomInDiffArea(old, new) ==
    LET pts == { << RandMul(r1, new[1]), RandMul(r2, new[2]) >> : r1, r2 \in Rand }
    IN  IF new[1] <= old[1] /\ new[2] <= old[2]
        THEN pts
        ELSE { p \in pts : p[1] > ToPos(old[1]) \/ p[2] > ToPos(old[2]) }

\* no placement loop is running
NoPick == [old |-> <<0, 0>>, todo |-> 0, rejected |-> FALSE]

----------------------------------------------------------------------------
(* The state after StarField::new. *)

\* new() on one of the viewports vps with one of the star counts ns, the
\* Math.random() values of each star being one of samples
InitWith(vps, ns, samples) ==
    \E vp \in vps, n \in ns :
      \E ds \in [1..n -> samples] :
        /\ resolution = DeviceSize(vp)
        /\ stars = InitStars(ds, DeviceSize(vp)[1], DeviceSize(vp)[2])
        /\ meteors = << >>
        /\ star_buffer = << >>
        /\ meteor_buffer = << >>
        /\ pc = "idle"
        /\ pick = NoPick
        /\ frame = 0
        /\ resizes = 0
        /\ nextId = n + 1
        /\ spawned = {}
        /\ resized = {}
        /\ last = [op |-> "new", stars |-> << >>, meteors |-> << >>,
                   res |-> DeviceSize(vp),
                   size |-> DeviceSize(vp), drawn |-> <<0, 0>>]

Init == InitWith(Viewports, NumStars, DrawSamples)

(* The animation-frame callback: update(), then draw(). *)

\* update() within a bounded run: at most limit calls, of which at most
\* maxSpawns draw a value below 0.001, all of them before frame spawnUntil,
\* and all do from frame idleUntil on
UpdateFrame(limit, maxSpawns, idleUntil, spawnUntil) ==
    /\ pc = "idle"
    /\ frame + resizes < limit
    /\ \E dr \in SpawnDraws :
         LET spawn == dr[1] < 1
             ss  == UpdateStars(stars, resolution)
             ms0 == IF spawn
                    THEN Append(meteors, NewMeteor(dr[2], dr[3], resolution, frame))
                    ELSE meteors
             ms  == StepMeteors(ms0)
         IN  /\ spawn => Cardinality(spawned) < maxSpawns /\ frame < spawnUntil
             /\ ~spawn => frame < idleUntil
             /\ stars' = ss
             /\ star_buffer' = StarData(ss)
             /\ meteors' = ms
             /\ meteor_buffer' = MeteorData(ms)
             /\ spawned' = IF spawn THEN spawned \cup {frame} ELSE spawned
    /\ frame' = frame + 1
    /\ pc' = "updated"
    /\ last' = [op |-> "update", stars |-> stars, meteors |-> meteors,
                res |-> resolution, size |-> resolution, drawn |-> <<0, 0>>]
    /\ UNCHANGED <<resolution, pick, resizes, nextId, resized>>

UpdateStep(limit) == UpdateFrame(limit, MaxSpawns, limit, limit)

Update == UpdateStep(MaxCalls)

UpdateLong == UpdateStep(MeteorFrames)

\* draw(): draw_arrays(POINTS, 0, stars.len()) on star_buffer and
\* draw_arrays(TRIANGLES, 0, meteors.len() * 6) on meteor_buffer
Draw ==
    /\ pc = "updated"
    /\ pc' = "idle"
    /\ last' = [op |-> "draw", stars |-> stars, meteors |-> meteors,
                res |-> resolution, size |-> resolution,
                drawn |-> <<Len(stars), Len(meteors) * 6>>]
    /\ UNCHANGED <<stars, meteors, resolution, star_buffer, meteor_buffer,
                   pick, frame, resizes, nextId, spawned, resized>>

(* The resize-event callback. *)

\* resize() to one of the viewports vps
ResizeTo(vps) ==
    /\ pc = "idle"
    /\ frame + resizes < MaxCalls
    /\ \E vp \in vps :
         LET new  == DeviceSize(vp)
             old  == resolution
             kept == IF ValidSize(old) THEN Retained(stars, new) ELSE stars
             n    == IF ValidSize(old) THEN StarsToAdd(Len(kept), old, new) ELSE 0
         IN  /\ Len(kept) + n <= MaxStars
             /\ resolution' = new
             /\ last' = [op |-> "resize", stars |-> stars, meteors |-> meteors,
                         res |-> old, size |-> new, drawn |-> <<0, 0>>]
             /\ nextId' = nextId + n
             /\ \E add \in [1..n -> PickRandomInDiffArea(old, new) \X PushSamples] :
                  stars' = kept \o
                     [ i \in 1..n |->
                         MakeStar(nextId + i - 1, add[i][1][1], add[i][1][2],
                                  add[i][2]) ]
    /\ resizes' = resizes + 1
    /\ resized' = resized \cup {frame}
    /\ UNCHANGED <<meteors, star_buffer, meteor_buffer, pc, pick, frame, spawned>>

Resize == ResizeTo(Viewports)

Next == Update \/ Draw \/ Resize

Spec == Init /\ [][Next]_vars

(* Runs from one surface without stars, long enough for a meteor to live    *)
(* out its lifetime; the resize events come within the first MaxCalls       *)
(* calls.                                                                   *)

InitMeteor == Init /\ stars = << >> /\ resolution = <<7, 4>>

NextMeteor == UpdateLong \/ Draw \/ Resize

SpecMeteor == InitMeteor /\ [][NextMeteor]_vars

(* The same callbacks with a meteor spawned in every update() from frame    *)
(* MaxCalls on: the runs on which the meteor set is fullest.                *)

UpdateShower == UpdateFrame(MeteorFrames, MeteorFrames, MaxCalls, MeteorFrames)

NextShower == UpdateShower \/ Draw \/ Resize

SpecShower == InitMeteor /\ [][NextShower]_vars

(* Runs from one surface with two stars in which the first MaxCalls calls   *)
(* are free (frames with or without a spawn, resize events between them)    *)
(* and the frames go on while a meteor is live: every draw() follows        *)
(* whatever the earlier callbacks left behind.                              *)

InitRedraw ==
    InitWith({[cw |-> 7, ch |-> 4, dpr2 |-> 1]}, {2},
             { d \in DrawSamples : d.r \in Rand })

UpdateRedraw ==
    /\ frame + resizes < MaxCalls \/ meteors # << >>
    /\ UpdateFrame(MeteorFrames, MeteorFrames, MeteorFrames, MaxCalls)

\* the window is resized between its full height and a quarter of it
ResizeRedraw == ResizeTo({ vp \in Viewports : vp.cw = 7 })

NextRedraw == UpdateRedraw \/ Draw \/ ResizeRedraw

SpecRedraw == InitRedraw /\ [][NextRedraw]_vars

(* resize() with its placement loop run one iteration per step.             *)

\* resize() up to the loop for _ in 0..stars_to_add; it returns here when
\* the old size is invalid or stars_to_add is 0
ResizeBegin ==
    /\ pc = "idle"
    /\ frame + resizes < MaxCalls
    /\ \E vp \in Viewports :
         LET new  == DeviceSize(vp)
             old  == resolution
             kept == IF ValidSize(old) THEN Retained(stars, new) ELSE stars
             n    == IF ValidSize(old) THEN StarsToAdd(Len(kept), old, new) ELSE 0
         IN  /\ Len(kept) + n <= MaxStars
             /\ resolution' = new
             /\ stars' = kept
             /\ last' = [op |-> "resize", stars |-> stars, meteors |-> meteors,
                         res |-> old, size |-> new, drawn |-> <<0, 0>>]
             /\ pick' = [old |-> old, todo |-> n, rejected |-> FALSE]
             /\ pc' = IF n = 0 THEN "idle" ELSE "placing"
             /\ resizes' = IF n = 0 THEN resizes + 1 ELSE resizes
    /\ resized' = resized \cup {frame}
    /\ UNCHANGED <<meteors, star_buffer, meteor_buffer, frame, nextId, spawned>>

\* an iteration of the loop of pick_random_in_diff_area whose draw fails
\* x > old_width || y > old_height: the loop goes round
PickReject ==
    /\ pc = "placing"
    /\ PickDraws(resolution) \ PickRandomInDiffArea(pick.old, resolution) # {}
    /\ pick' = [pick EXCEPT !.rejected = TRUE]
    /\ UNCHANGED <<stars, meteors, resolution, star_buffer, meteor_buffer, pc,
                   frame, resizes, nextId, spawned, resized, last>>

\* an iteration whose draw is returned: the star is pushed there, and
\* resize() returns after the last of the stars_to_add placements
PickAccept ==
    /\ pc = "placing"
    /\ \E p \in PickRandomInDiffArea(pick.old, resolution), d \in PushSamples :
         stars' = Append(stars, MakeStar(nextId, p[1], p[2], d))
    /\ nextId' = nextId + 1
    /\ pick' = [pick EXCEPT !.todo = @ - 1]
    /\ pc' = IF pick.todo = 1 THEN "idle" ELSE "placing"
    /\ resizes' = IF pick.todo = 1 THEN resizes + 1 ELSE resizes
    /\ UNCHANGED <<meteors, resolution, star_buffer, meteor_buffer, frame,
                   spawned, resized, last>>

NextPlace == Update \/ Draw \/ ResizeBegin \/ PickReject \/ PickAccept

\* Every iteration draws afresh from Math.random(), so a draw that the test
\* accepts, while there is one, cannot be missed for ever.
SpecPlace == Init /\ [][NextPlace]_vars /\ WF_vars(PickAccept)

----------------------------------------------------------------------------
(* Properties. *)

StarIdx == 1..Len(stars)
PrevIdx == 1..Len(last.stars)
MeteorIdx == 1..Len(meteors)

\* alpha before the clamp, for the phase the star has now
RawAlpha(s) == s.base_alpha + MulDivTrunc(AMPLITUDE, Sin(s.twinkle_phase), 1000)

\* C1: every star's alpha is in [0,1] (0..1000 thousandths) in every state:
\* after construction, after every update() and after every resize().
C1_AlphaInUnitInterval ==
    \A i \in StarIdx : stars[i].alpha >= 0 /\ stars[i].alpha <= 1000

\* C1 witness: after an update() that followed a resize(), a star whose
\* unclamped alpha exceeds 1 has alpha exactly 1.
C1_Witness ==
    /\ last.op = "update"
    /\ resizes >= 1
    /\ \E i \in StarIdx : RawAlpha(stars[i]) > 1000 /\ stars[i].alpha = 1000

\* C2: when update() has returned, every star is within
\* [0, width] x [0, height] of the current resolution.
C2_StarsInsideAfterUpdate ==
    last.op = "update" =>
        \A i \in StarIdx :
            /\ stars[i].x >= 0 /\ stars[i].x <= ToPos(resolution[1])
            /\ stars[i].y >= 0 /\ stars[i].y <= ToPos(resolution[2])

\* C2 witness: update() has returned and one star that its step carried past
\* the right or bottom edge sits on the opposite edge (0), another star or
\* the same one started the call outside the surface.
C2_Witness ==
    /\ last.op = "update"
    /\ \E i \in StarIdx :
         /\ last.stars[i].y + Step(last.stars[i].vy) > ToPos(resolution[2])
         /\ stars[i].y = 0
    /\ \E i \in StarIdx : ~InBounds(last.stars[i], resolution)

\* C3: every meteor in the meteor set has 0 <= lifetime < max_lifetime, in
\* every state (so when update() returns and when draw() runs).
C3_MeteorLifetimeInRange ==
    \A i \in MeteorIdx :
        meteors[i].lifetime >= 0 /\ meteors[i].lifetime < meteors[i].max_lifetime

\* C3 witness: update() has returned having removed a meteor whose lifetime
\* reached max_lifetime in that call.
C3_Witness ==
    /\ last.op = "update"
    /\ \E j \in 1..Len(last.meteors) :
         /\ last.meteors[j].lifetime + 1 = last.meteors[j].max_lifetime
         /\ \A i \in MeteorIdx : meteors[i].born # last.meteors[j].born

\* the meteor spawned by the update() of frame 0 is in the meteor set
Frame0MeteorPresent == \E i \in MeteorIdx : meteors[i].born = 0

\* C4 as claimed: a meteor spawned in the update() of frame 0 is present
\* after the update() of frames 0..49 and absent after that of frame 50 and
\* later (frame - 1 is the frame whose update() has just returned).
C4_Original ==
    (last.op = "update" /\ 0 \in spawned) =>
        (Frame0MeteorPresent <=> frame - 1 <= 49)

\* C4 amended: it is present after the update() of frames 0..48 (49 frames)
\* and absent after the update() of frame 49 and of every later frame.
C4_PresentFrames0To48 ==
    (last.op = "update" /\ 0 \in spawned) =>
        (Frame0MeteorPresent <=> frame - 1 <= 48)

\* C4 witness: the update() of frame 49 has returned and the meteor spawned
\* in frame 0, present before the call with lifetime 49, is gone.
C4_Witness ==
    /\ last.op = "update"
    /\ 0 \in spawned
    /\ frame - 1 = 49
    /\ \E j \in 1..Len(last.meteors) :
         last.meteors[j].born = 0 /\ last.meteors[j].lifetime = 49
    /\ ~Frame0MeteorPresent

\* the stars the last call started with that lie inside the surface now
KeptCount ==
    Cardinality({ j \in PrevIdx : InBounds(last.stars[j], resolution) })

\* the last call was a resize() from a valid size to a larger area
GrowResize ==
    /\ last.op = "resize"
    /\ ValidSize(last.res)
    /\ Area(resolution) > Area(last.res)

\* ceil(n / d) for n >= 0, d > 0
CeilDiv(n, d) == (n + d - 1) \div d

\* C5 as claimed: a resize() from a valid size to a larger area leaves at
\* least as many stars as there were before it.
C5_Original == GrowResize => Len(stars) >= Len(last.stars)

\* C5 amended: such a resize() leaves at least as many stars as the number
\* of previous stars that lie inside the new rectangle (so at least as many
\* as before whenever no previous star lies outside the new rectangle).
C5_GrowKeepsInsideCount == GrowResize => Len(stars) >= KeptCount

\* C5 witness: the area grew while the width shrank, a star inside the new
\* rectangle was kept and stars were added to it.
C5_Witness ==
    /\ GrowResize
    /\ resolution[1] < last.res[1]
    /\ KeptCount >= 1
    /\ Len(stars) > KeptCount

\* C6: a resize() whose new area is at most the old area adds no star:
\* every star after it is a star there was before it, and none is doubled.
C6_ShrinkAddsNothing ==
    (last.op = "resize" /\ Area(resolution) <= Area(last.res)) =>
        /\ Len(stars) <= Len(last.stars)
        /\ \A i \in StarIdx : \E j \in PrevIdx : stars[i] = last.stars[j]
        /\ \A i, k \in StarIdx : stars[i].id = stars[k].id => i = k

\* C6 witness: a resize() from a valid size to a smaller area culled a star
\* and kept another.
C6_Witness ==
    /\ last.op = "resize"
    /\ ValidSize(last.res)
    /\ Area(resolution) < Area(last.res)
    /\ Len(stars) >= 1
    /\ Len(stars) < Len(last.stars)

\* width * height as a real number, in quarter px^2
ExactArea(size) == size[1] * size[2]

\* C7: after a resize() from a valid size to a larger area, with old_count
\* the star count before the resize, new_count = old_count
\* + ceil(old_count * (new_area - old_area) / old_area), which is
\* 0 <= new_count - old_count * new_area / old_area < 1.
C7_Original ==
    (/\ last.op = "resize"
     /\ ValidSize(last.res)
     /\ ExactArea(resolution) > ExactArea(last.res)) =>
        Len(stars) = Len(last.stars)
            + CeilDiv(Len(last.stars)
                        * (ExactArea(resolution) - ExactArea(last.res)),
                      ExactArea(last.res))

UpdateKeepsStars ==
    last.op = "update" =>
        /\ Len(stars) = Len(last.stars)
        /\ \A i \in StarIdx :
             /\ stars[i].id = last.stars[i].id
             /\ stars[i].radius = last.stars[i].radius
             /\ stars[i].base_alpha = last.stars[i].base_alpha
             /\ stars[i].twinkle_speed = last.stars[i].twinkle_speed
             /\ stars[i].color = last.stars[i].color

\* the star last.stars[j] is no longer in the star set
Removed(j) == \A i \in StarIdx : stars[i].id # last.stars[j].id

\* C9 as claimed: update() keeps the stars, and a star is removed only by a
\* resize(), only if it lies outside the new rectangle, and only by a
\* resize that shrinks the surface (here: in at least one dimension).
C9_Original ==
    /\ UpdateKeepsStars
    /\ \A j \in PrevIdx :
         Removed(j) =>
            /\ last.op = "resize"
            /\ ~InBounds(last.stars[j], resolution)
            /\ (resolution[1] < last.res[1] \/ resolution[2] < last.res[2])

\* C9 amended: update() keeps the stars, and a star is removed only by a
\* resize() from a valid size and only if it lies outside the new
\* rectangle; the resize need not shrink the surface.
C9_RemovedOnlyByResizeOutside ==
    /\ UpdateKeepsStars
    /\ \A j \in PrevIdx :
         Removed(j) =>
            /\ last.op = "resize"
            /\ ValidSize(last.res)
            /\ ~InBounds(last.stars[j], resolution)

\* C9 witness: a resize() that shrinks neither dimension removed a star (one
\* that an earlier resize() from an invalid size had left outside).
C9_Witness ==
    /\ last.op = "resize"
    /\ resolution[1] >= last.res[1]
    /\ resolution[2] >= last.res[2]
    /\ \E j \in PrevIdx : Removed(j)

\* the last call was a resize() that found a previous resolution with
\* width <= 0 or height <= 0
ResizeFromInvalid ==
    /\ last.op = "resize"
    /\ (last.res[1] <= 0 \/ last.res[2] <= 0)

\* C10: such a resize() sets the resolution to the new size and leaves the
\* stars as they were.
C10_InvalidOldSizeKeepsStars ==
    ResizeFromInvalid => (resolution = last.size /\ stars = last.stars)

\* C10 witness: such a resize() to a non-empty surface kept a star that lies
\* outside the new rectangle.
C10_Witness ==
    /\ ResizeFromInvalid
    /\ Area(resolution) > 0
    /\ \E i \in StarIdx : ~InBounds(stars[i], resolution)

\* the star at index i now was pushed by the last call: no star the call
\* started with has its id
Added(i) == \A j \in PrevIdx : stars[i].id # last.stars[j].id

\* C11: every star added by a resize() from a valid size to a larger area
\* lies inside the new rectangle (0 <= x <= new_width, 0 <= y <= new_height)
\* and outside the old one (x > old_width or y > old_height), also when the
\* area grew while one dimension shrank.
C11_AddedStarsInDiffArea ==
    GrowResize =>
        \A i \in StarIdx :
            Added(i) =>
                /\ InBounds(stars[i], resolution)
                /\ \/ stars[i].x > ToPos(last.res[1])
                   \/ stars[i].y > ToPos(last.res[2])

\* C11 witness: the area grew while the width shrank, and a star was added
\* at an x inside the old width.
C11_Witness ==
    /\ GrowResize
    /\ resolution[1] < last.res[1]
    /\ \E i \in StarIdx : Added(i) /\ stars[i].x <= ToPos(last.res[1])

\* C12: after any sequence of calls the meteor set holds at most 49
\* (max_lifetime - 1) meteors, and no two of them have the same lifetime.
C12_MeteorsBoundedDistinct ==
    /\ Len(meteors) <= MaxLifetime - 1
    /\ \A i, j \in MeteorIdx :
         meteors[i].lifetime = meteors[j].lifetime => i = j

\* C12 witness: an update() that started with 49 meteors spawned one more,
\* removed the oldest and left 49.
C12_Witness ==
    /\ last.op = "update"
    /\ Len(last.meteors) = MaxLifetime - 1
    /\ (frame - 1) \in spawned
    /\ Len(meteors) = MaxLifetime - 1

\* C13: every resize() call terminates.  Whenever resize() runs the
\* rejection loop of pick_random_in_diff_area, some point of the new
\* rectangle passes its test x > old_width or y > old_height (the new size
\* exceeds the old one in a dimension, and a draw passes), so with fair
\* draws each of the stars_to_add placements returns and so does the call.
C13_ResizeTerminates ==
    /\ [](pc = "placing" =>
            /\ resolution[1] > pick.old[1] \/ resolution[2] > pick.old[2]
            /\ PickRandomInDiffArea(pick.old, resolution) # {})
    /\ \A k \in 1..MaxStars : (pick.todo = k) ~> (pick.todo < k)
    /\ (pc = "placing") ~> (pc = "idle")

\* C13 witness: a resize() to a larger area has returned after several
\* placements, one of which needed a draw that was rejected first.
C13_Witness ==
    /\ pc = "idle"
    /\ GrowResize
    /\ pick.rejected
    /\ Cardinality({ i \in StarIdx : Added(i) }) >= 2

====
